---- MODULE Spec2Model ----
(***************************************************************************)
(* VigilanceOS backend: telemetry ingestion (routes/telemetry.py), the     *)
(* websocket ConnectionManager (routes/websocket.py), the threshold        *)
(* evaluation and anomaly recording (services/anomaly_forwarder.py) and    *)
(* the notifier service (notifier/main.py).                                *)
(*                                                                         *)
(* The backend runs on one asyncio event loop: a handler runs atomically   *)
(* from one suspension point to the next.  The suspension points of the    *)
(* modelled code are the awaits of WebSocket.send_text in                  *)
(* ConnectionManager.broadcast; every action below is one such run.        *)
(***************************************************************************)
EXTENDS Integers, Sequences, FiniteSets, TLC

\* ---------------------------------------------------------------- bounds
MaxReqs == 2            \* submit_telemetry requests issued in a run
MaxSockets == 2         \* websocket clients that connect in a run
MaxTemp == 3            \* temperatures and temperature bounds range over 0..MaxTemp
MaxBatteryOffset == 1   \* battery values range up to CriticalBattery + MaxBatteryOffset
MaxSignal == 1          \* signal strengths and bounds range over 0..MaxSignal
MaxAnomalyId == 2       \* resolve_anomaly is called with the ids 1..MaxAnomalyId
MaxConnections == 4     \* entries of the live list in the manager harness

\* ------------------------------------------------------ program constants
None == -1              \* Optional[float] = None: a metric that is not reported
CriticalBattery == 10   \* "high" if battery < 10 else "medium"

Reqs == 1..MaxReqs
Sockets == 1..MaxSockets

DeviceStatus == {"online", "offline", "warning", "error"}
ONLINE == "online"
OFFLINE == "offline"

MetricKeys == {"temperature", "battery", "signal_strength"}
TelemetryKeys == {"device_id"} \cup MetricKeys

NoDevice == "no-device"

\* ------------------------------------------------------------ list helpers
SetOf(list) == {list[i] : i \in 1..Len(list)}

RECURSIVE ListRemove(_, _)
\* list.remove(x): drops the first occurrence of x
ListRemove(list, x) ==
    IF list = <<>> THEN <<>>
    ELSE IF Head(list) = x THEN Tail(list)
    ELSE <<Head(list)>> \o ListRemove(Tail(list), x)

\* ConnectionManager.disconnect on a given list value
\* a disconnect that pops the last entry instead of removing the given one
DisconnectLast(list, websocket) ==
    IF websocket \in SetOf(list) THEN SubSeq(list, 1, Len(list) - 1) ELSE list

DisconnectFrom(list, websocket) ==
    IF websocket \in SetOf(list) THEN ListRemove(list, websocket) ELSE list

RECURSIVE DisconnectAll(_, _)
\* the cleanup loop of broadcast: disconnect every collected connection
DisconnectAll(list, disconnected) ==
    IF disconnected = <<>> THEN list
    ELSE DisconnectAll(DisconnectFrom(list, Head(disconnected)), Tail(disconnected))

\* ----------------------------------------------------- request conversion
\* TelemetryCreate(**payload).dict(): every field of the schema is a key of
\* the dict, a field the payload omits has the value None
TelemetryDict(payload) ==
    [k \in TelemetryKeys |-> IF k \in DOMAIN payload THEN payload[k] ELSE None]

\* ------------------------------------------------------ threshold checks
\* Each check yields [error |-> "none" | "KeyError" | "TypeError", found |-> candidates]
Ok(found) == [error |-> "none", found |-> found]
Raise(e) == [error |-> e, found |-> <<>>]

Candidate(type, severity) == [type |-> type, severity |-> severity]

TemperatureCheckInclusive(telemetry_data, thresholds) ==
    IF "temperature" \in DOMAIN telemetry_data /\ "temperature" \in DOMAIN thresholds
    THEN LET temp == telemetry_data["temperature"]
             bound == thresholds["temperature"]
         IN  IF "max" \notin DOMAIN bound THEN Raise("KeyError")
             ELSE IF temp = None THEN Raise("TypeError")
             ELSE IF temp >= bound["max"]
                  THEN Ok(<<Candidate("HIGH_TEMPERATURE", "high")>>)
             ELSE IF "min" \notin DOMAIN bound THEN Raise("KeyError")
             ELSE IF temp < bound["min"]
                  THEN Ok(<<Candidate("LOW_TEMPERATURE", "medium")>>)
             ELSE Ok(<<>>)
    ELSE Ok(<<>>)

TemperatureCheck(telemetry_data, thresholds) ==
    IF "temperature" \in DOMAIN telemetry_data /\ "temperature" \in DOMAIN thresholds
    THEN LET temp == telemetry_data["temperature"]
             bound == thresholds["temperature"]
         IN  \* temp > thresholds["temperature"]["max"]: the subscript is
             \* evaluated before the comparison
             IF "max" \notin DOMAIN bound THEN Raise("KeyError")
             ELSE IF temp = None THEN Raise("TypeError")
             ELSE IF temp > bound["max"]
                  THEN Ok(<<Candidate("HIGH_TEMPERATURE", "high")>>)
             ELSE IF "min" \notin DOMAIN bound THEN Raise("KeyError")
             ELSE IF temp < bound["min"]
                  THEN Ok(<<Candidate("LOW_TEMPERATURE", "medium")>>)
             ELSE Ok(<<>>)
    ELSE Ok(<<>>)

BatteryCheck(telemetry_data, thresholds) ==
    IF "battery" \in DOMAIN telemetry_data /\ "battery" \in DOMAIN thresholds
    THEN LET battery == telemetry_data["battery"]
             bound == thresholds["battery"]
         IN  IF "min" \notin DOMAIN bound THEN Raise("KeyError")
             ELSE IF battery = None THEN Raise("TypeError")
             ELSE IF battery < bound["min"]
                  THEN Ok(<<Candidate("LOW_BATTERY",
                              IF battery < CriticalBattery THEN "high" ELSE "medium")>>)
             ELSE Ok(<<>>)
    ELSE Ok(<<>>)

SignalCheck(telemetry_data, thresholds) ==
    IF "signal_strength" \in DOMAIN telemetry_data /\ "signal_strength" \in DOMAIN thresholds
    THEN LET signal == telemetry_data["signal_strength"]
             bound == thresholds["signal_strength"]
         IN  IF "min" \notin DOMAIN bound THEN Raise("KeyError")
             ELSE IF signal = None THEN Raise("TypeError")
             ELSE IF signal < bound["min"]
                  THEN Ok(<<Candidate("WEAK_SIGNAL", "medium")>>)
             ELSE Ok(<<>>)
    ELSE Ok(<<>>)

\* The detection part of check_anomaly: the three checks in order, the first
\* exception leaves the try block with no candidate (except Exception: print)
DetectAnomalies(telemetry_data, thresholds) ==
    LET t == TemperatureCheck(telemetry_data, thresholds)
        b == BatteryCheck(telemetry_data, thresholds)
        s == SignalCheck(telemetry_data, thresholds)
    IN  IF t.error # "none" THEN t
        ELSE IF b.error # "none" THEN b
        ELSE IF s.error # "none" THEN s
        ELSE Ok(t.found \o b.found \o s.found)

\* "not device.threshold_config": None and {} are both falsy
NoThresholds(threshold_config) == DOMAIN threshold_config = {}

\* the detection without the early return: "temperature" in None raises
EvaluateUnguarded(telemetry_data, threshold_config) ==
    IF NoThresholds(threshold_config)
    THEN Raise("TypeError")
    ELSE DetectAnomalies(telemetry_data, threshold_config)

\* check_anomaly up to the save loop, for a device that exists
Evaluate(telemetry_data, threshold_config) ==
    IF NoThresholds(threshold_config)
    THEN [error |-> "skipped", found |-> <<>>]
    ELSE DetectAnomalies(telemetry_data, threshold_config)


\* ------------------------------------------------------------------ state
VARIABLES
    devices,             \* devices table: device_id -> [status, last_seen, threshold_config]
    telemetry,           \* telemetry table, in insertion order
    anomalies,           \* anomalies table, in insertion order
    now,                 \* the clock read by datetime.utcnow()
    active_connections,  \* ConnectionManager.active_connections
    sock,                \* transport state of each websocket
    managerCall,         \* manager harness: the call that returned last
    notifications,       \* requests the notifier service has handled
    pc,                  \* position of each submit_telemetry request
    telemetry_data,      \* telemetry_data.dict() of each request
    response,            \* what the caller of each request got back
    commit,              \* how db.commit() of each request ended
    prior,               \* device.status as loaded by the latest successful submission
    it,                  \* broadcast: index of the list iterator
    cur,                 \* broadcast: connection whose send_text is awaited
    disconnected,        \* broadcast: the local list of failed connections
    message,             \* broadcast: the message being sent
    pending,             \* check_anomaly: anomalies_detected not yet saved
    evaluation,          \* check_anomaly: outcome of the detection part
    call,                \* history of the broadcast call in progress
    lastCall,            \* history of the broadcast call that returned last
    lastResolve,         \* the resolve_anomaly call that returned last
    evalStage,           \* evaluator harness: position
    evalPayload,         \* evaluator harness: request body
    evalThresholds,      \* evaluator harness: device.threshold_config
    evalData,            \* evaluator harness: telemetry_data.dict()
    evalResult           \* evaluator harness: outcome of the detection

dbVars == <<devices, telemetry, anomalies, now>>
wsVars == <<active_connections, sock, managerCall>>
reqVars == <<pc, telemetry_data, response, commit, prior, it, cur, disconnected, message,
             pending, evaluation, call, lastCall, lastResolve>>
evalVars == <<evalStage, evalPayload, evalThresholds, evalData, evalResult>>
vars == <<dbVars, wsVars, notifications, reqVars, evalVars>>

\* ------------------------------------------------------------ fixed inputs
EmptyDict == [k \in {} |-> 0]

\* threshold_config of device d1; device d2 has none
D1Thresholds ==
    [temperature |-> [min |-> 1, max |-> 2],
     battery |-> [min |-> 10],
     signal_strength |-> [min |-> 1]]

DeviceIds == {"d1", "d2"}

\* request bodies the clients send to POST /telemetry/
Payloads ==
    { [device_id |-> "d1", temperature |-> 3, battery |-> 9, signal_strength |-> 1],
      [device_id |-> "d1", battery |-> 9],
      [device_id |-> "d2", temperature |-> 3],
      [device_id |-> "dX", temperature |-> 3] }

\* db.commit() returns or raises
CommitOutcomes == {"committed", "failed"}

\* request bodies sent to the notifier's POST /notify
NotifyRequests ==
    { [type |-> "anomaly", device_id |-> "d1", severity |-> "high"] }

NoCall == [stable |-> {}, attempted |-> {}, delivered |-> {}]
NoLastCall == [req |-> 0, type |-> "none", stable |-> {}, attempted |-> {},
               delivered |-> {}, failed |-> {}]
NoEvaluation == [error |-> "pending", found |-> <<>>]
NoResolve == [id |-> 0, status |-> 0, was |-> "-"]
NoManagerCall == [op |-> "none", websocket |-> 0, raised |-> FALSE, before |-> <<>>]
NoResponse == [status |-> 0, id |-> 0]
NoMessage(r) == [type |-> "none", req |-> r, kind |-> "-"]

\* d1 has any status the column can hold, d2 is as create_device left it
\* (status: default OFFLINE, last_seen: NULL)
InitSystem(status) ==
    /\ devices = [d \in DeviceIds |->
                    [status |-> IF d = "d1" THEN status ELSE OFFLINE,
                     last_seen |-> None,
                     threshold_config |-> IF d = "d1" THEN D1Thresholds ELSE EmptyDict]]
    /\ telemetry = <<>>
    /\ anomalies = <<>>
    /\ now = 0
    /\ active_connections = <<>>
    /\ sock = [h \in Sockets |-> "new"]
    /\ managerCall = NoManagerCall
    /\ notifications = {}
    /\ pc = [r \in Reqs |-> "idle"]
    /\ telemetry_data = [r \in Reqs |-> EmptyDict]
    /\ response = [r \in Reqs |-> NoResponse]
    /\ commit = [r \in Reqs |-> "none"]
    /\ prior = "unset"
    /\ it = [r \in Reqs |-> 0]
    /\ cur = [r \in Reqs |-> 0]
    /\ disconnected = [r \in Reqs |-> <<>>]
    /\ message = [r \in Reqs |-> NoMessage(r)]
    /\ pending = [r \in Reqs |-> <<>>]
    /\ evaluation = [r \in Reqs |-> NoEvaluation]
    /\ call = [r \in Reqs |-> NoCall]
    /\ lastCall = NoLastCall
    /\ lastResolve = NoResolve

InitEval ==
    /\ evalStage = "off"
    /\ evalPayload = EmptyDict
    /\ evalThresholds = EmptyDict
    /\ evalData = EmptyDict
    /\ evalResult = NoEvaluation

Init ==
    /\ \E status \in DeviceStatus : InitSystem(status)
    /\ InitEval


\* ---------------------------------------------------------------- helpers
\* the query without its filter: the first device of the table
LookupDeviceUnfiltered(device_id) ==
    CHOOSE d \in DOMAIN devices : \A e \in DOMAIN devices : d = "d1" \/ e # "d1"

\* db.query(Device).filter(Device.device_id == device_id).first()
LookupDevice(device_id) ==
    IF device_id \in DOMAIN devices THEN device_id ELSE NoDevice

\* last_seen written as the time left of the run instead of the time read
MarkOnlineCountdown(device, at) ==
    [device EXCEPT !.status = ONLINE, !.last_seen = MaxReqs - at]

\* a loop that stays on a connection whose send raised, to try it again
RetryPosition(i, sent) == IF sent THEN i + 1 ELSE i

\* the list iterator of "for connection in self.active_connections": the
\* position after position i, whether the send returned or raised
NextPosition(i, sent) == i + 1

\* the Telemetry row of request r
TelemetryRecord(r, data, at, id) ==
    [id |-> id, timestamp |-> at, data |-> data, req |-> r]

\* a store that keeps one row per device: the device's row is overwritten
UpsertTelemetry(rows, r, data, at) ==
    IF \E i \in 1..Len(rows) : rows[i].data["device_id"] = data["device_id"]
    THEN [i \in 1..Len(rows) |->
             IF rows[i].data["device_id"] = data["device_id"]
             THEN TelemetryRecord(r, data, at, i) ELSE rows[i]]
    ELSE Append(rows, TelemetryRecord(r, data, at, Len(rows) + 1))

\* telemetry = Telemetry(**telemetry_data.dict()); db.add(telemetry)
AddTelemetry(rows, r, data, at) ==
    Append(rows, TelemetryRecord(r, data, at, Len(rows) + 1))

\* thresholds that are not applied again while the table holds anomalies
ThresholdsUnlessOpen(device) ==
    IF anomalies = <<>> THEN devices[device].threshold_config ELSE EmptyDict

\* thresholds = device.threshold_config
ThresholdsOf(device) == devices[device].threshold_config

\* a commit that stores the status and loses the last_seen of the same flush
MarkOnlineStatusOnly(device, at) == [device EXCEPT !.status = ONLINE]

\* the liveness update left for after the broadcast
MarkOnlineDeferred(device, at) == device

\* a status update that only wakes an OFFLINE device
MarkOnlineIfOffline(device, at) ==
    [device EXCEPT !.status = IF @ = OFFLINE THEN ONLINE ELSE @, !.last_seen = at]

\* device.status = DeviceStatus.ONLINE; device.last_seen = datetime.utcnow()
MarkOnline(device, at) ==
    [device EXCEPT !.status = ONLINE, !.last_seen = at]

\* a handler that catches the exception of db.commit() and goes on
DurableOrSwallowed(outcome) == TRUE

\* db.commit() returned: the handler goes on to the lines after it
Durable(outcome) == outcome = "committed"

\* a handler that lets the exceptions of the sends reach its caller
ReturnedUnlessFailed(id, failed) ==
    IF failed = <<>> THEN [status |-> 200, id |-> id] ELSE [status |-> 500, id |-> 0]

\* return telemetry, after a broadcast in which the sends to failed raised
Returned(id, failed) == [status |-> 200, id |-> id]

TelemetryMessage(r) == [type |-> "telemetry", req |-> r, kind |-> "-"]
AnomalyMessage(r, candidate) == [type |-> "anomaly", req |-> r, kind |-> candidate.type]

\* a row built without the candidate's severity: the column default applies
AnomalyRowDefaults(r, candidate, id) ==
    [id |-> id, device_id |-> telemetry_data[r]["device_id"],
     anomaly_type |-> candidate.type, severity |-> "medium",
     resolved |-> "false", req |-> r]

\* a row that is created resolved
AnomalyRowResolved(r, candidate, id) ==
    [id |-> id, device_id |-> telemetry_data[r]["device_id"],
     anomaly_type |-> candidate.type, severity |-> candidate.severity,
     resolved |-> "true", req |-> r]

\* Anomaly(device_id=..., anomaly_type=..., severity=..., resolved="false")
AnomalyRow(r, candidate, id) ==
    [id |-> id, device_id |-> telemetry_data[r]["device_id"],
     anomaly_type |-> candidate.type, severity |-> candidate.severity,
     resolved |-> "false", req |-> r]

RECURSIVE SaveAll(_, _, _)
\* the save loop of check_anomaly while no send suspends it
SaveAll(r, rows, candidates) ==
    IF candidates = <<>> THEN rows
    ELSE SaveAll(r, Append(rows, AnomalyRow(r, Head(candidates), Len(rows) + 1)),
                 Tail(candidates))

\* a disconnect of the connections in gone, as seen by the calls in progress
Unstable(c, gone) == [c EXCEPT !.stable = @ \ gone]

\* The first iteration of "for connection in self.active_connections" up to
\* the await of send_text; list is the non-empty active_connections
EnterBroadcast(r, list, msg) ==
    /\ it' = [it EXCEPT ![r] = 1]
    /\ cur' = [cur EXCEPT ![r] = list[1]]
    /\ disconnected' = [disconnected EXCEPT ![r] = <<>>]
    /\ message' = [message EXCEPT ![r] = msg]

\* broadcast has returned: its locals are gone
LeaveBroadcast(r) ==
    /\ it' = [it EXCEPT ![r] = 0]
    /\ cur' = [cur EXCEPT ![r] = 0]
    /\ disconnected' = [disconnected EXCEPT ![r] = <<>>]
    /\ message' = [message EXCEPT ![r] = NoMessage(r)]

\* The save loop of check_anomaly from the candidate list rest on, with the
\* live list being list: runs until a broadcast suspends in a send, or to
\* the end of the loop when there is nobody to send to
SaveAnomalies(r, list, rest, gone) ==
    IF rest = <<>> \/ list = <<>>
    THEN /\ anomalies' = SaveAll(r, anomalies, rest)
         /\ pc' = [pc EXCEPT ![r] = "done"]
         /\ pending' = [pending EXCEPT ![r] = <<>>]
         /\ call' = [x \in Reqs |-> IF x = r THEN NoCall ELSE Unstable(call[x], gone)]
         /\ LeaveBroadcast(r)
    ELSE /\ anomalies' = Append(anomalies, AnomalyRow(r, Head(rest), Len(anomalies) + 1))
         /\ pc' = [pc EXCEPT ![r] = "send_anomaly"]
         /\ pending' = [pending EXCEPT ![r] = Tail(rest)]
         /\ call' = [x \in Reqs |->
                       IF x = r
                       THEN [stable |-> SetOf(list), attempted |-> {list[1]}, delivered |-> {}]
                       ELSE Unstable(call[x], gone)]
         /\ EnterBroadcast(r, list, AnomalyMessage(r, Head(rest)))

\* -------------------------------------------------------- submit_telemetry
\* POST /telemetry/ up to its first suspension
Submit(r, payload, outcome) ==
    /\ evalStage = "off"
    /\ pc[r] = "idle"
    /\ \A q \in Reqs : q < r => pc[q] # "idle"
    /\ LET data == TelemetryDict(payload)
           device == LookupDevice(data["device_id"])
       IN  /\ telemetry_data' = [telemetry_data EXCEPT ![r] = data]
           /\ IF device = NoDevice
              THEN /\ pc' = [pc EXCEPT ![r] = "failed"]
                   /\ response' = [response EXCEPT ![r] = [status |-> 404, id |-> 0]]
                   /\ UNCHANGED <<dbVars, commit, prior, it, cur, disconnected, message,
                                  call, lastCall>>
              ELSE IF ~Durable(outcome)
              THEN \* db.commit() raises: nothing is stored, the call fails
                   /\ pc' = [pc EXCEPT ![r] = "error"]
                   /\ response' = [response EXCEPT ![r] = [status |-> 500, id |-> 0]]
                   /\ commit' = [commit EXCEPT ![r] = outcome]
                   /\ UNCHANGED <<dbVars, prior, it, cur, disconnected, message, call,
                                  lastCall>>
              ELSE /\ telemetry' = AddTelemetry(telemetry, r, data, now + 1)
                   /\ devices' = [devices EXCEPT ![device] = MarkOnline(@, now + 1)]
                   /\ now' = now + 1
                   /\ prior' = devices[device].status
                   /\ commit' = [commit EXCEPT ![r] = outcome]
                   /\ UNCHANGED anomalies
                   /\ IF active_connections = <<>>
                      THEN /\ pc' = [pc EXCEPT ![r] = "responded"]
                           /\ response' = [response EXCEPT ![r] =
                                  Returned(Len(telemetry) + 1, <<>>)]
                           /\ UNCHANGED <<it, cur, disconnected, message, call, lastCall>>
                      ELSE /\ pc' = [pc EXCEPT ![r] = "send_telemetry"]
                           /\ EnterBroadcast(r, active_connections, TelemetryMessage(r))
                           /\ call' = [call EXCEPT ![r] =
                                  [stable |-> SetOf(active_connections),
                                   attempted |-> {active_connections[1]},
                                   delivered |-> {}]]
                           /\ UNCHANGED <<response, lastCall>>
    /\ UNCHANGED <<wsVars, notifications, pending, evaluation, lastResolve, evalVars>>

\* ------------------------------------------------ ConnectionManager.broadcast
\* A broadcast resumes from the send_text it awaits: the send returns or
\* raises, the loop goes on to the next list position or ends, the failed
\* connections are disconnected and the caller continues to its next
\* suspension
ResumeSend(r) ==
    /\ pc[r] \in {"send_telemetry", "send_anomaly"}
    /\ sock[cur[r]] # "stalled"
    /\ LET sent == sock[cur[r]] = "open"
           failedNow == IF sent THEN disconnected[r] ELSE Append(disconnected[r], cur[r])
           deliveredNow == IF sent THEN call[r].delivered \cup {cur[r]}
                           ELSE call[r].delivered
           next == NextPosition(it[r], sent)
       IN  /\ IF next <= Len(active_connections)
              THEN /\ it' = [it EXCEPT ![r] = next]
                   /\ cur' = [cur EXCEPT ![r] = active_connections[next]]
                   /\ disconnected' = [disconnected EXCEPT ![r] = failedNow]
                   /\ call' = [call EXCEPT ![r] =
                          [@ EXCEPT !.attempted = @ \cup {active_connections[next]},
                                    !.delivered = deliveredNow]]
                   /\ UNCHANGED <<active_connections, pc, response, pending, anomalies,
                                  message, lastCall>>
              ELSE LET list == DisconnectAll(active_connections, failedNow)
                       gone == SetOf(active_connections) \ SetOf(list)
                   IN  /\ active_connections' = list
                       /\ lastCall' = [req |-> r, type |-> message[r].type,
                                       stable |-> call[r].stable,
                                       attempted |-> call[r].attempted,
                                       delivered |-> deliveredNow,
                                       failed |-> SetOf(failedNow)]
                       /\ IF pc[r] = "send_telemetry"
                          THEN \* background_tasks.add_task(...); return telemetry
                               /\ pc' = [pc EXCEPT ![r] = "responded"]
                               /\ response' = [response EXCEPT ![r] =
                                      Returned(CHOOSE i \in 1..Len(telemetry) :
                                                   telemetry[i].req = r,
                                               failedNow)]
                               /\ call' = [x \in Reqs |-> IF x = r THEN NoCall
                                                          ELSE Unstable(call[x], gone)]
                               /\ LeaveBroadcast(r)
                               /\ UNCHANGED <<pending, anomalies>>
                          ELSE /\ SaveAnomalies(r, list, pending[r], gone)
                               /\ UNCHANGED response
    /\ UNCHANGED <<devices, telemetry, now, sock, managerCall, notifications,
                   telemetry_data, commit,
                   prior, evaluation, lastResolve, evalVars>>

\* ------------------------------------------------------------ check_anomaly
\* The background task of a request, started after the response was sent
CheckAnomaly(r) ==
    /\ pc[r] = "responded"
    /\ LET device == LookupDevice(telemetry_data[r]["device_id"])
           result == IF device = NoDevice THEN [error |-> "skipped", found |-> <<>>]
                     ELSE Evaluate(telemetry_data[r], ThresholdsOf(device))
       IN  /\ evaluation' = [evaluation EXCEPT ![r] = result]
           /\ IF result.error # "none"
              THEN \* return, or except Exception: print
                   /\ pc' = [pc EXCEPT ![r] = "done"]
                   /\ UNCHANGED <<anomalies, pending, it, cur, disconnected, message, call>>
              ELSE SaveAnomalies(r, active_connections, result.found, {})
    /\ UNCHANGED <<devices, telemetry, now, wsVars, notifications, telemetry_data,
                   response, commit, prior, lastCall, lastResolve, evalVars>>

\* ------------------------------------------------------- websocket_endpoint
\* manager.connect: accept, then append to the live list
Connect(websocket) ==
    /\ evalStage = "off"
    /\ sock[websocket] = "new"
    /\ \A g \in Sockets : g < websocket => sock[g] # "new"
    /\ sock' = [sock EXCEPT ![websocket] = "open"]
    /\ active_connections' = Append(active_connections, websocket)
    /\ UNCHANGED <<dbVars, managerCall, notifications, reqVars, evalVars>>

\* the peer goes away: from now on send_text raises and receive_text raises
\* WebSocketDisconnect
ClientDrop(websocket) ==
    /\ sock[websocket] = "open"
    /\ sock' = [sock EXCEPT ![websocket] = "broken"]
    /\ UNCHANGED <<dbVars, active_connections, managerCall, notifications, reqVars,
                   evalVars>>

\* the peer stops reading: from now on send_text does not return
ClientStall(websocket) ==
    /\ sock[websocket] = "open"
    /\ sock' = [sock EXCEPT ![websocket] = "stalled"]
    /\ UNCHANGED <<dbVars, active_connections, managerCall, notifications, reqVars,
                   evalVars>>

\* except WebSocketDisconnect: manager.disconnect(websocket)
EndpointDisconnect(websocket) ==
    /\ sock[websocket] = "broken"
    /\ sock' = [sock EXCEPT ![websocket] = "closed"]
    /\ active_connections' = DisconnectFrom(active_connections, websocket)
    /\ call' = [x \in Reqs |-> Unstable(call[x], {websocket})]
    /\ UNCHANGED <<dbVars, managerCall, notifications, pc, telemetry_data, response,
                   commit, prior, it, cur, disconnected, message, pending, evaluation, lastCall,
                   lastResolve, evalVars>>

\* ------------------------------------------------------------------ notifier
\* POST /notify of the notifier service
SendNotification(request) ==
    /\ evalStage = "off"
    /\ request \notin notifications
    /\ notifications' = notifications \cup {request}
    /\ UNCHANGED <<dbVars, wsVars, reqVars, evalVars>>

Next ==
    \/ \E r \in Reqs, payload \in Payloads, outcome \in CommitOutcomes :
          Submit(r, payload, outcome)
    \/ \E r \in Reqs : ResumeSend(r)
    \/ \E r \in Reqs : CheckAnomaly(r)
    \/ \E websocket \in Sockets : Connect(websocket)
    \/ \E websocket \in Sockets : ClientDrop(websocket)
    \/ \E websocket \in Sockets : ClientStall(websocket)
    \/ \E websocket \in Sockets : EndpointDisconnect(websocket)

Spec == Init /\ [][Next]_vars

\* the backend together with the notifier service
NotifierNext == \E request \in NotifyRequests : SendNotification(request)

NextWithNotifier == Next \/ NotifierNext

NotifySpec == Init /\ [][NextWithNotifier]_vars

\* The event loop runs every task that is ready to resume
Fairness == \A r \in Reqs : WF_vars(ResumeSend(r)) /\ WF_vars(CheckAnomaly(r))

FairSpec == Init /\ [][Next]_vars /\ Fairness


\* ---------------------------------------------------------- manager harness
\* The ConnectionManager alone: connect and disconnect called with any
\* handle, whether or not it is in the live list. accept() returns or raises.
ManagerInit ==
    /\ InitSystem(OFFLINE)
    /\ evalStage = "manager"
    /\ evalPayload = EmptyDict
    /\ evalThresholds = EmptyDict
    /\ evalData = EmptyDict
    /\ evalResult = NoEvaluation

\* await websocket.accept(); self.active_connections.append(websocket)
ManagerConnect(websocket, accepted) ==
    /\ evalStage = "manager"
    /\ Len(active_connections) < MaxConnections
    /\ active_connections' = IF accepted THEN Append(active_connections, websocket)
                             ELSE active_connections
    /\ sock' = [sock EXCEPT ![websocket] = IF accepted THEN "open" ELSE @]
    /\ managerCall' = [op |-> "connect", websocket |-> websocket,
                       raised |-> ~accepted, before |-> active_connections]
    /\ UNCHANGED <<dbVars, notifications, reqVars, evalVars>>

\* if websocket in self.active_connections: self.active_connections.remove(websocket)
ManagerDisconnect(websocket) ==
    /\ evalStage = "manager"
    /\ active_connections' = DisconnectFrom(active_connections, websocket)
    /\ managerCall' = [op |-> "disconnect", websocket |-> websocket,
                       raised |-> FALSE, before |-> active_connections]
    /\ UNCHANGED <<dbVars, sock, notifications, reqVars, evalVars>>

ManagerNext ==
    \/ \E websocket \in Sockets, accepted \in BOOLEAN : ManagerConnect(websocket, accepted)
    \/ \E websocket \in Sockets : ManagerDisconnect(websocket)

ManagerSpec == ManagerInit /\ [][ManagerNext]_vars


\* ---------------------------------------------------------- resolve_anomaly
\* the ids a client puts in PUT /telemetry/anomalies/{anomaly_id}/resolve;
\* an id matches no row until the table has that many rows
AnomalyIds == 1..MaxAnomalyId

\* the query without its filter: the first row of the table
LookupAnomalyFirst(anomaly_id) == IF anomalies = <<>> THEN 0 ELSE 1

\* db.query(Anomaly).filter(Anomaly.id == anomaly_id).first(): the position
\* of the row, 0 for None
LookupAnomaly(anomaly_id) ==
    IF \E i \in 1..Len(anomalies) : anomalies[i].id = anomaly_id
    THEN CHOOSE i \in 1..Len(anomalies) : anomalies[i].id = anomaly_id
    ELSE 0

\* a resolve that flips the flag
ToggleResolved(anomaly) ==
    [anomaly EXCEPT !.resolved = IF @ = "true" THEN "false" ELSE "true"]

\* anomaly.resolved = "true"
MarkResolved(anomaly) == [anomaly EXCEPT !.resolved = "true"]

\* PUT /telemetry/anomalies/{anomaly_id}/resolve: the handler has no await
Resolve(anomaly_id) ==
    /\ evalStage = "off"
    /\ LET i == LookupAnomaly(anomaly_id)
       IN  IF i = 0
           THEN /\ lastResolve' = [id |-> anomaly_id, status |-> 404, was |-> "-"]
                /\ UNCHANGED anomalies
           ELSE /\ anomalies' = [anomalies EXCEPT ![i] = MarkResolved(@)]
                /\ lastResolve' = [id |-> anomaly_id, status |-> 200,
                                   was |-> anomalies[i].resolved]
    /\ UNCHANGED <<devices, telemetry, now, wsVars, notifications, pc, telemetry_data,
                   response, commit, prior, it, cur, disconnected, message, pending, evaluation,
                   call, lastCall, evalVars>>

\* the backend together with the clients that resolve anomalies
ResolveNext == \E anomaly_id \in AnomalyIds : Resolve(anomaly_id)

NextWithResolve == Next \/ ResolveNext

ResolveSpec == Init /\ [][NextWithResolve]_vars


\* ------------------------------------------------------ evaluator harness
\* One request body and one threshold configuration, drawn from bounded
\* sets, taken through TelemetryCreate(...).dict() and the detection part of
\* check_anomaly
TempValues == 0..MaxTemp
BatteryValues == (CriticalBattery - 1)..(CriticalBattery + MaxBatteryOffset)
SignalValues == 0..MaxSignal

\* the request body reporting the metrics of v that are not None
PayloadOf(v) ==
    [k \in {"device_id"} \cup {m \in MetricKeys : v[m] # None} |->
        IF k = "device_id" THEN "d1" ELSE v[k]]

EvalPayloads ==
    { PayloadOf([temperature |-> t, battery |-> b, signal_strength |-> s]) :
        t \in TempValues \cup {None}, b \in BatteryValues \cup {None},
        s \in SignalValues \cup {None} }

\* the dicts with some of the given keys
Bounds(keys, values) == UNION { [K -> values] : K \in SUBSET keys }

Configured(bounds) == {[on |-> FALSE, b |-> EmptyDict]} \cup [on : {TRUE}, b : bounds]

ConfigOf(c) == [k \in {m \in MetricKeys : c[m].on} |-> c[k].b]

EvalThresholdConfigs ==
    { ConfigOf([temperature |-> t, battery |-> b, signal_strength |-> s]) :
        t \in Configured(Bounds({"min", "max"}, TempValues)),
        b \in Configured(Bounds({"min"}, BatteryValues)),
        s \in Configured(Bounds({"min"}, SignalValues)) }

EvalInit ==
    /\ InitSystem(OFFLINE)
    /\ evalStage = "input"
    /\ evalPayload \in EvalPayloads
    /\ evalThresholds \in EvalThresholdConfigs
    /\ evalData = EmptyDict
    /\ evalResult = NoEvaluation

\* submit_telemetry: telemetry_data.dict() is what check_anomaly is given
EvalSubmit ==
    /\ evalStage = "input"
    /\ evalStage' = "submitted"
    /\ evalData' = TelemetryDict(evalPayload)
    /\ UNCHANGED <<dbVars, wsVars, notifications, reqVars, evalPayload, evalThresholds,
                   evalResult>>

EvalCheck ==
    /\ evalStage = "submitted"
    /\ evalStage' = "evaluated"
    /\ evalResult' = Evaluate(evalData, evalThresholds)
    /\ UNCHANGED <<dbVars, wsVars, notifications, reqVars, evalPayload, evalThresholds,
                   evalData>>

EvalNext == EvalSubmit \/ EvalCheck

EvalSpec == EvalInit /\ [][EvalNext]_vars


\* ------------------------------------------------------------------ claims
\* the telemetry rows a request has inserted
RowsOf(r) == {i \in 1..Len(telemetry) : telemetry[i].req = r}

\* a step in which request r enters submit_telemetry
Enters(r) == pc[r] = "idle" /\ pc'[r] # "idle"

\* C1: submit_telemetry with a device_id that matches no Device fails with
\* 404 and has no side effect: no Telemetry row, no change of any Device, no
\* broadcast started, and the request never reaches the broadcast or the
\* anomaly evaluation.
C1_UnknownDeviceNoEffect ==
    [][\A r \in Reqs :
          /\ (Enters(r) /\ telemetry_data'[r]["device_id"] \notin DOMAIN devices)
                => /\ pc'[r] = "failed"
                   /\ response'[r].status = 404
                   /\ UNCHANGED <<devices, telemetry, anomalies, active_connections,
                                  message, call, lastCall, evaluation>>
          /\ pc[r] = "failed"
                => /\ pc'[r] = "failed"
                   /\ UNCHANGED <<message[r], call[r], evaluation[r], response[r]>>
                   /\ RowsOf(r) = {} /\ lastCall'.req # r]_vars

C1_Witness ==
    \E r \in Reqs :
        /\ pc[r] = "failed"
        /\ response[r].status = 404
        /\ telemetry_data[r]["device_id"] = "dX"
        /\ active_connections # <<>>
        /\ telemetry = <<>>

\* C2: a successful submit_telemetry leaves the device ONLINE whatever its
\* status was, and no step of the ingestion changes a device's status to
\* anything but ONLINE.
C2_IngestionSetsOnline ==
    [][\A d \in DOMAIN devices :
          /\ (\E r \in Reqs : /\ Enters(r)
                              /\ pc'[r] \notin {"failed", "error"}
                              /\ telemetry_data'[r]["device_id"] = d)
                => devices'[d].status = ONLINE
          /\ devices'[d].status # devices[d].status => devices'[d].status = ONLINE]_vars

C2_Witness ==
    /\ prior = "error"
    /\ devices["d1"].status = ONLINE
    /\ devices["d1"].last_seen # None
    /\ \E r \in Reqs : RowsOf(r) # {} /\ telemetry_data[r]["device_id"] = "d1"

\* C3: submit_telemetry has returned the stored sample as soon as the sample
\* and the liveness update are committed; it does not wait for a subscriber.
C3_ReturnsOnceCommitted ==
    \A r \in Reqs : RowsOf(r) # {} => response[r].status = 200

\* C4: a subscriber whose send never completes cannot block the broadcaster:
\* every broadcast of a telemetry event eventually finishes.
C4_BroadcastFinishes ==
    \A r \in Reqs : (pc[r] = "send_telemetry") ~> (pc[r] # "send_telemetry")

\* C5: when a delivery fails in a broadcast call, every other subscriber that
\* stayed connected during the call got the message, and the failing
\* subscriber is out of the live set.
C5_FailureIsolated ==
    lastCall.failed # {} =>
        /\ (lastCall.stable \ lastCall.failed) \subseteq lastCall.delivered
        /\ lastCall.failed \cap SetOf(active_connections) = {}

\* C6: a broadcast call attempts delivery to every subscriber that was
\* connected for the whole call, under every interleaving.
C6_AttemptsEveryConnected ==
    lastCall.stable \subseteq lastCall.attempted

\* the anomaly rows saved for a request
AnomaliesOf(r) == {i \in 1..Len(anomalies) : anomalies[i].req = r}

\* C10: every anomaly candidate of an ingested sample is handed to the
\* notifier, besides being persisted and broadcast.
C10_CandidatesForwarded ==
    \A r \in Reqs :
        pc[r] = "done" =>
            \A i \in AnomaliesOf(r) :
                \E n \in notifications :
                    /\ n.type = "anomaly"
                    /\ n.device_id = anomalies[i].device_id
                    /\ n.severity = anomalies[i].severity


\* ----------------------------------------------------- evaluator claims
Evaluated == evalStage = "evaluated"

ReportsAll(payload) == MetricKeys \subseteq DOMAIN payload

\* thresholds with temperature {min, max}, battery {min}, signal_strength {min}
ConfiguresAll(thresholds) ==
    /\ DOMAIN thresholds = MetricKeys
    /\ DOMAIN thresholds["temperature"] = {"min", "max"}
    /\ DOMAIN thresholds["battery"] = {"min"}
    /\ DOMAIN thresholds["signal_strength"] = {"min"}

Has(dict, metric, bound) == metric \in DOMAIN dict /\ bound \in DOMAIN dict[metric]

\* the candidates the rule table gives a metric, for the bounds that are
\* configured and the metrics that are reported
TooHot(payload, thresholds) ==
    /\ "temperature" \in DOMAIN payload
    /\ Has(thresholds, "temperature", "max")
    /\ payload["temperature"] > thresholds["temperature"]["max"]

TooCold(payload, thresholds) ==
    /\ "temperature" \in DOMAIN payload
    /\ Has(thresholds, "temperature", "min")
    /\ payload["temperature"] < thresholds["temperature"]["min"]

BatteryRule(payload, thresholds) ==
    IF /\ "battery" \in DOMAIN payload
       /\ Has(thresholds, "battery", "min")
       /\ payload["battery"] < thresholds["battery"]["min"]
    THEN {Candidate("LOW_BATTERY",
                    IF payload["battery"] < CriticalBattery THEN "high" ELSE "medium")}
    ELSE {}

SignalRule(payload, thresholds) ==
    IF /\ "signal_strength" \in DOMAIN payload
       /\ Has(thresholds, "signal_strength", "min")
       /\ payload["signal_strength"] < thresholds["signal_strength"]["min"]
    THEN {Candidate("WEAK_SIGNAL", "medium")}
    ELSE {}

HighRule(payload, thresholds) ==
    IF TooHot(payload, thresholds) THEN {Candidate("HIGH_TEMPERATURE", "high")} ELSE {}

\* LOW_TEMPERATURE iff temperature < min
LowRule(payload, thresholds) ==
    IF TooCold(payload, thresholds) THEN {Candidate("LOW_TEMPERATURE", "medium")} ELSE {}

\* LOW_TEMPERATURE iff temperature < min and not temperature > max
LowRuleUnlessHigh(payload, thresholds) ==
    IF TooCold(payload, thresholds) /\ ~TooHot(payload, thresholds)
    THEN {Candidate("LOW_TEMPERATURE", "medium")} ELSE {}

\* the evaluation raised nothing and found exactly the candidates of expected
FoundExactly(expected) ==
    /\ evalResult.error = "none"
    /\ SetOf(evalResult.found) = expected
    /\ Len(evalResult.found) = Cardinality(expected)

\* the candidates the evaluation handed on are those of expected
Found(expected) == Evaluated /\ SetOf(evalResult.found) = expected

\* C7 as stated: for a sample reporting the three metrics and thresholds
\* configuring temperature {min, max}, battery {min}, signal_strength {min},
\* the candidates are exactly HIGH_TEMPERATURE/high iff temperature > max,
\* LOW_TEMPERATURE/medium iff temperature < min, LOW_BATTERY iff battery < min
\* (high iff battery < 10), WEAK_SIGNAL/medium iff signal_strength < min.
C7_RulesAsStated ==
    (Evaluated /\ ReportsAll(evalPayload) /\ ConfiguresAll(evalThresholds)) =>
        FoundExactly(HighRule(evalPayload, evalThresholds)
                     \cup LowRule(evalPayload, evalThresholds)
                     \cup BatteryRule(evalPayload, evalThresholds)
                     \cup SignalRule(evalPayload, evalThresholds))

\* C7 as amended: the same, with LOW_TEMPERATURE/medium iff temperature < min
\* and not temperature > max (the high check comes first and excludes the
\* low one); a value equal to a bound raises nothing.
C7_RulesHighFirst ==
    (Evaluated /\ ReportsAll(evalPayload) /\ ConfiguresAll(evalThresholds)) =>
        FoundExactly(HighRule(evalPayload, evalThresholds)
                     \cup LowRuleUnlessHigh(evalPayload, evalThresholds)
                     \cup BatteryRule(evalPayload, evalThresholds)
                     \cup SignalRule(evalPayload, evalThresholds))

\* one sample raising a candidate for each of the three metrics, with a
\* metric equal to none of its bounds
C7_Witness ==
    /\ Evaluated /\ ReportsAll(evalPayload) /\ ConfiguresAll(evalThresholds)
    /\ Len(evalResult.found) = 3
    /\ Candidate("HIGH_TEMPERATURE", "high") \in SetOf(evalResult.found)
    /\ Candidate("LOW_BATTERY", "medium") \in SetOf(evalResult.found)
    /\ Candidate("WEAK_SIGNAL", "medium") \in SetOf(evalResult.found)

\* C8: a sample submitted without one of the three metrics still yields
\* every candidate that its reported metrics warrant.
C8_OmittedMetricSkipped ==
    (Evaluated /\ ~ReportsAll(evalPayload) /\ ConfiguresAll(evalThresholds)) =>
        Found(HighRule(evalPayload, evalThresholds)
              \cup LowRuleUnlessHigh(evalPayload, evalThresholds)
              \cup BatteryRule(evalPayload, evalThresholds)
              \cup SignalRule(evalPayload, evalThresholds))

\* thresholds whose temperature entry configures exactly one bound, the
\* other two metrics being absent or configured with their min
OneTemperatureBound(thresholds) ==
    /\ "temperature" \in DOMAIN thresholds
    /\ Cardinality(DOMAIN thresholds["temperature"]) = 1
    /\ \A m \in DOMAIN thresholds \ {"temperature"} : DOMAIN thresholds[m] = {"min"}

\* C9: with only max (or only min) configured for temperature, a sample
\* whose temperature does not violate that bound yields no temperature
\* candidate, and the battery and signal_strength rules are still evaluated.
C9_UnconfiguredBoundSkipped ==
    (/\ Evaluated /\ ReportsAll(evalPayload) /\ OneTemperatureBound(evalThresholds)
     /\ ~TooHot(evalPayload, evalThresholds)
     /\ ~TooCold(evalPayload, evalThresholds)) =>
        Found(BatteryRule(evalPayload, evalThresholds)
              \cup SignalRule(evalPayload, evalThresholds))


\* ------------------------------------------------------ forwarding claims
\* the candidates whose rows request r has saved, in insertion order
SavedBy(r) ==
    LET rows == SelectSeq(anomalies, LAMBDA a : a.req = r)
    IN  [i \in 1..Len(rows) |-> Candidate(rows[i].anomaly_type, rows[i].severity)]

\* the rows a step appends for request r
AddedBy(r) == {i \in (Len(anomalies) + 1)..Len(anomalies') : anomalies'[i].req = r}

HasReturned(r) == pc[r] \in {"responded", "send_anomaly", "done"}

\* the evaluation of request r ended in the except clause
EvaluationRaised(r) == evaluation[r].error \notin {"pending", "none", "skipped"}

\* the sample of request r and the liveness update of its device are stored
StaysCommitted(r) ==
    /\ Cardinality(RowsOf(r)) = 1
    /\ \A i \in RowsOf(r) :
          /\ telemetry[i].data = telemetry_data[r]
          /\ devices[telemetry_data[r]["device_id"]].status = ONLINE
          /\ devices[telemetry_data[r]["device_id"]].last_seen >= telemetry[i].timestamp

\* C12: once the sample of a request is committed its caller gets no error:
\* when the broadcast has returned, with or without failed sends, the
\* response is the stored sample, it stays so when the evaluation raises,
\* and the sample and the liveness update stay committed.
C12_FailuresNotSurfaced ==
    \A r \in Reqs :
        /\ RowsOf(r) # {} => response[r].status \in {0, 200}
        /\ (lastCall.req = r /\ lastCall.type = "telemetry") => HasReturned(r)
        /\ EvaluationRaised(r) => HasReturned(r)
        /\ HasReturned(r)
              => /\ response[r].status = 200
                 /\ response[r].id \in RowsOf(r)
                 /\ StaysCommitted(r)

C12_Witness ==
    \E r \in Reqs :
        /\ lastCall.req = r
        /\ lastCall.type = "telemetry"
        /\ lastCall.failed # {}
        /\ EvaluationRaised(r)
        /\ response[r].status = 200
        /\ StaysCommitted(r)


\* --------------------------------------------------------- resolve claims
\* the positions of the rows with the given id
RowsWithId(anomaly_id) == {i \in 1..Len(anomalies) : anomalies[i].id = anomaly_id}

\* a step in which a resolve_anomaly call for the id returns
Resolves(anomaly_id) == lastResolve' # lastResolve /\ lastResolve'.id = anomaly_id

\* C13: every resolve_anomaly call with the id of an existing anomaly
\* succeeds and leaves that anomaly resolved and every other field and row
\* as it was; a call on an anomaly that is already resolved changes nothing.
C13_ResolveIdempotent ==
    [][\A anomaly_id \in AnomalyIds : \A i \in RowsWithId(anomaly_id) :
          Resolves(anomaly_id)
              => /\ lastResolve'.status = 200
                 /\ anomalies' = [anomalies EXCEPT ![i].resolved = "true"]
                 /\ anomalies[i].resolved = "true" => anomalies' = anomalies]_vars

\* a second call on the same anomaly has succeeded
C13_Witness ==
    /\ lastResolve.status = 200
    /\ lastResolve.was = "true"
    /\ \A i \in RowsWithId(lastResolve.id) : anomalies[i].resolved = "true"
    /\ RowsWithId(lastResolve.id) # {}

\* C14: an anomaly row is created with resolved = "false", goes to "true"
\* only in a successful resolve_anomaly call for its id, and once "true" it
\* stays "true" (and the row stays) in every step of submissions,
\* evaluations and resolve calls.
C14_ResolvedIsTerminal ==
    [][/\ Len(anomalies') >= Len(anomalies)
       /\ \A i \in (Len(anomalies) + 1)..Len(anomalies') :
             anomalies'[i].resolved = "false"
       /\ \A i \in 1..Len(anomalies) :
             /\ anomalies[i].resolved = "true" => anomalies'[i].resolved = "true"
             /\ anomalies'[i].resolved # anomalies[i].resolved
                   => /\ Resolves(anomalies[i].id)
                      /\ lastResolve'.status = 200
                      /\ UNCHANGED <<pc, evaluation, telemetry, devices>>]_vars

\* a resolved row outlived a later submission, evaluation and row
C14_Witness ==
    /\ Len(anomalies) = 4
    /\ anomalies[1].resolved = "true"
    /\ anomalies[2].resolved = "false"
    /\ anomalies[1].req # anomalies[4].req
    /\ \A r \in Reqs : pc[r] = "done"
    /\ lastResolve.status = 404

\* C15: a resolve_anomaly call with an id that matches no row fails with 404
\* and changes no row.
C15_UnknownAnomalyNotFound ==
    [][\A anomaly_id \in AnomalyIds :
          (Resolves(anomaly_id) /\ RowsWithId(anomaly_id) = {})
              => /\ lastResolve'.status = 404
                 /\ UNCHANGED anomalies]_vars

\* the call failed while the table held an unresolved row of another id
C15_Witness ==
    /\ lastResolve.status = 404
    /\ RowsWithId(lastResolve.id) = {}
    /\ \E i \in 1..Len(anomalies) : anomalies[i].resolved = "false"


\* --------------------------------------------------------- liveness claims
\* C16: while the telemetry event of a submission is being delivered, the
\* sample's row is stored and its device already shows ONLINE and a
\* last_seen that is not older than the sample.
C16_LivenessBeforeDelivery ==
    \A r \in Reqs : message[r].type = "telemetry" => StaysCommitted(r)

\* a subscriber has been sent the event of a submission that found its
\* device OFFLINE
C16_Witness ==
    \E r \in Reqs :
        /\ pc[r] = "send_telemetry"
        /\ call[r].delivered # {}
        /\ prior = OFFLINE
        /\ devices[telemetry_data[r]["device_id"]].status = ONLINE

\* C17: no step lowers the last_seen of a device, and a successful
\* submission leaves its device with a last_seen that is not older than the
\* one it found, also when the earlier submission's handler is still
\* suspended in its broadcast.
C17_LastSeenNonDecreasing ==
    [][/\ \A d \in DOMAIN devices : devices'[d].last_seen >= devices[d].last_seen
       /\ \A r \in Reqs :
             (Enters(r) /\ pc'[r] \notin {"failed", "error"})
                 => \A i \in 1..Len(telemetry) :
                       telemetry[i].data["device_id"] = telemetry_data'[r]["device_id"]
                           => devices'[telemetry_data'[r]["device_id"]].last_seen
                                  >= telemetry[i].timestamp]_vars

\* the second submission for d1 was stored while the handler of the first
\* was suspended in its broadcast
C17_Witness ==
    /\ pc[1] = "send_telemetry"
    /\ pc[2] \notin {"idle", "failed", "error"}
    /\ telemetry_data[1]["device_id"] = "d1"
    /\ telemetry_data[2]["device_id"] = "d1"
    /\ devices["d1"].last_seen = 2

\* C18: a submission whose db.commit() raised has failed: its caller got
\* an error, no Telemetry row of it is stored, no event of it was or is
\* broadcast and no anomaly evaluation of it has run or will run.
C18_FailedWriteNotAcknowledged ==
    \A r \in Reqs :
        commit[r] = "failed"
            => /\ pc[r] = "error"
               /\ response[r].status = 500
               /\ RowsOf(r) = {}
               /\ message[r].type = "none"
               /\ call[r] = NoCall
               /\ lastCall.req # r
               /\ evaluation[r] = NoEvaluation
               /\ AnomaliesOf(r) = {}
               /\ ~ENABLED ResumeSend(r)
               /\ ~ENABLED CheckAnomaly(r)

\* the write of a sample for a configured device failed while a subscriber
\* was connected
C18_Witness ==
    \E r \in Reqs :
        /\ commit[r] = "failed"
        /\ response[r].status = 500
        /\ telemetry_data[r]["device_id"] = "d1"
        /\ active_connections # <<>>
        /\ devices["d1"].last_seen = None


\* ---------------------------------------------------------- manager claims
\* the entries a list holds for a handle
Entries(list, websocket) == Cardinality({i \in 1..Len(list) : list[i] = websocket})

Unconfigured(r) ==
    /\ pc[r] # "idle"
    /\ telemetry_data[r]["device_id"] \in DOMAIN devices
    /\ NoThresholds(devices[telemetry_data[r]["device_id"]].threshold_config)

\* C20: without a threshold configuration the evaluation of every sample,
\* whatever metrics it reports or omits, returns early with no candidate and
\* no exception; a request for such a device ends with no Anomaly row and no
\* anomaly event.
C20_NoThresholdsNoCandidates ==
    /\ \A payload \in EvalPayloads :
          Evaluate(TelemetryDict(payload), EmptyDict) = [error |-> "skipped", found |-> <<>>]
    /\ \A r \in Reqs :
          Unconfigured(r)
              => /\ evaluation[r].error \in {"pending", "skipped"}
                 /\ evaluation[r].found = <<>>
                 /\ AnomaliesOf(r) = {}
                 /\ message[r].type # "anomaly"
                 /\ pc[r] # "send_anomaly"
                 /\ lastCall.req = r => lastCall.type = "telemetry"

\* the evaluation of a sample of d2 has returned while a subscriber was
\* connected
C20_Witness ==
    \E r \in Reqs :
        /\ Unconfigured(r)
        /\ pc[r] = "done"
        /\ evaluation[r].error = "skipped"
        /\ active_connections # <<>>
        /\ AnomaliesOf(r) = {}


\* ------------------------------------------------------------ purity claim
\* the evaluation of request r has ended
HasEvaluated(r) == evaluation[r].error # "pending"

Traversing(r) == pc[r] \in {"send_telemetry", "send_anomaly"}

\* C22: while a broadcast call is traversing the live list, no step of
\* another task (a connect, a disconnect of the endpoint, the cleanup of
\* another broadcast) changes the list.
C22_NoMutationWhileIterating ==
    [][\A r \in Reqs :
          (Traversing(r) /\ Traversing(r)' /\ message'[r] = message[r])
              => active_connections' = active_connections]_vars


\* ------------------------------------------------------- exactly-once claim
\* the requests whose db.commit() has returned
Committed == {r \in Reqs : commit[r] = "committed"}

\* C23: a submission whose commit returns inserts exactly one Telemetry
\* row and makes its one telemetry broadcast call in that step; the call
\* returns once and its evaluation is dispatched once, after the return;
\* the table holds as many rows as commits have returned, and no step
\* changes or removes a stored row.
C23_ExactlyOnce ==
    [][/\ \A i \in 1..Len(telemetry) :
             i <= Len(telemetry') /\ telemetry'[i] = telemetry[i]
       /\ Len(telemetry') = Cardinality(Committed')
       /\ \A r \in Reqs :
             /\ r \in Committed' <=> Cardinality(RowsOf(r)') = 1
             /\ r \notin Committed' <=> RowsOf(r)' = {}
             /\ (Enters(r) /\ r \in Committed')
                   => \/ message'[r] = TelemetryMessage(r)
                      \/ active_connections = <<>> /\ pc'[r] = "responded"
             /\ (message'[r].type = "telemetry" /\ message[r].type # "telemetry")
                   => Enters(r)
             /\ (pc'[r] = "responded" /\ pc[r] # "responded")
                   => /\ pc[r] \in {"idle", "send_telemetry"}
                      /\ r \in Committed'
                      /\ ~HasEvaluated(r)
             /\ pc[r] # "idle" => pc'[r] \notin {"idle", "send_telemetry"} \/ pc'[r] = pc[r]
             /\ pc[r] \in {"send_anomaly", "done"} => pc'[r] \in {"send_anomaly", "done"}
             /\ evaluation'[r] # evaluation[r]
                   => pc[r] = "responded" /\ ~HasEvaluated(r) /\ HasEvaluated(r)'
             /\ HasEvaluated(r) => HasReturned(r)]_vars

\* two submissions for d1 have been stored, broadcast to a subscriber,
\* answered and evaluated
C23_Witness ==
    /\ \A r \in Reqs :
          /\ pc[r] = "done"
          /\ telemetry_data[r]["device_id"] = "d1"
          /\ response[r].status = 200
          /\ Cardinality(RowsOf(r)) = 1
    /\ Len(telemetry) = MaxReqs
    /\ lastCall.delivered # {}


\* ------------------------------------------------------ at-most-once claim
\* a step of the loop of request r's broadcast call, from one send to the
\* next
NextSend(r) ==
    /\ Traversing(r) /\ Traversing(r)'
    /\ message'[r] = message[r]
    /\ \/ it'[r] # it[r]
       \/ disconnected'[r] # disconnected[r]
       \/ call'[r].delivered # call[r].delivered

\* C24: within a broadcast call the loop moves on after every send,
\* returned or raised, to a connection it has not sent to in this call; a
\* connection is delivered to or failed, never both; and when a call has
\* ended the connections whose send raised are out of the live list, so no
\* later call sends to them.
C24_AtMostOnce ==
    [][/\ \A r \in Reqs :
             /\ NextSend(r)
                   => /\ it'[r] = it[r] + 1
                      /\ cur'[r] \notin call[r].attempted
                      /\ cur'[r] # cur[r]
                      /\ cur[r] \in call'[r].delivered
                            <=> cur[r] \notin SetOf(disconnected'[r])
             /\ Traversing(r)'
                   => /\ call'[r].delivered \cap SetOf(disconnected'[r]) = {}
                      /\ Len(disconnected'[r]) = Cardinality(SetOf(disconnected'[r]))
       /\ lastCall'.delivered \cap lastCall'.failed = {}
       /\ lastCall'.failed \cap SetOf(active_connections') = {}]_vars

\* a call has ended in which one connection was delivered to and another
\* failed, and a later call is on its way
C24_Witness ==
    /\ lastCall.failed # {}
    /\ lastCall.delivered # {}
    /\ \E r \in Reqs : Traversing(r) /\ lastCall.req # r /\ call[r].delivered # {}


\* ------------------------------------------------------ transaction claim
\* the stored samples of a device
SamplesOf(d) == {i \in 1..Len(telemetry) : telemetry[i].data["device_id"] = d}

\* C25: in every state the sample of a request is stored iff its commit
\* returned, and a device shows the liveness update of its latest stored
\* sample (ONLINE, last_seen of that submission) iff it has a stored sample;
\* a device without one has the last_seen it was created with.
C25_CommittedTogether ==
    /\ \A r \in Reqs : commit[r] = "committed" <=> RowsOf(r) # {}
    /\ \A d \in DOMAIN devices :
          IF SamplesOf(d) = {}
          THEN /\ devices[d].last_seen = None
               /\ d # "d1" => devices[d].status = OFFLINE
          ELSE /\ devices[d].status = ONLINE
               /\ \E i \in SamplesOf(d) :
                     /\ devices[d].last_seen = telemetry[i].timestamp
                     /\ \A j \in SamplesOf(d) : telemetry[j].timestamp <= telemetry[i].timestamp

\* of two submissions for d1 the commit of one raised and that of the
\* other returned
C25_Witness ==
    \E r, q \in Reqs :
        /\ commit[r] = "failed"
        /\ commit[q] = "committed"
        /\ telemetry_data[r]["device_id"] = "d1"
        /\ telemetry_data[q]["device_id"] = "d1"
        /\ Cardinality(SamplesOf("d1")) = 1
        /\ devices["d1"].last_seen # None


\* --------------------------------------------------------- cleanup claim
\* the connections a step takes out of the live list
Removed == SetOf(active_connections) \ SetOf(active_connections')

\* the connections whose endpoint handles their WebSocketDisconnect in a step
OwnDisconnect == {ws \in Sockets : sock[ws] = "broken" /\ sock'[ws] = "closed"}

\* C26: a step takes a connection out of the live list only as that
\* connection's own disconnect or as the cleanup of a broadcast call that
\* ends in the step, and then only connections whose send raised in that
\* call: the connections the call delivered to stay in the list.
C26_RemovesOnlyFailed ==
    [][Removed # {} =>
          \/ Removed \subseteq OwnDisconnect
          \/ \E r \in Reqs :
                /\ Traversing(r)
                /\ lastCall'.req = r
                /\ lastCall'.type = message[r].type
                /\ Removed \subseteq lastCall'.failed
                /\ Removed \cap lastCall'.delivered = {}
                /\ lastCall'.delivered \cap SetOf(active_connections)
                      \subseteq SetOf(active_connections')]_vars

\* a call ended that removed the connection whose send raised and kept the
\* one it delivered to
C26_Witness ==
    /\ lastCall.failed # {}
    /\ lastCall.delivered # {}
    /\ lastCall.delivered \subseteq SetOf(active_connections)
    /\ lastCall.failed \cap SetOf(active_connections) = {}
    /\ \A ws \in lastCall.failed : sock[ws] = "broken"

====
